---- MODULE Spec2Model ----
EXTENDS Integers, Naturals, Sequences, FiniteSets, TLC

(***************************************************************************)
(* Bounds of the model.                                                    *)
(***************************************************************************)
MaxCalls == 3
MaxGames == 2
MaxWorkers == 2
MaxPly == 2
MaxEncPieces == 2
\* largest per-game hit or miss count in the report-arithmetic specification
MaxHM == 8

(***************************************************************************)
(* retrieval_engine.py: similarity scores are in hundredths; the default    *)
(* acceptance threshold of RetrievalEngine.lookup is 0.80.                  *)
(***************************************************************************)
Threshold == 80

NoMove == "None"

\* Abstract moves (UCI strings); "m3" is never legal in any modelled position.
GMMoves == {"m1", "m2", "m3"}
LegalMovesUniverse == {"m1", "m2"}
Sims == {50, 79, 80, 95}

\* A query_points(limit=1) answer: no point, or a top point with its payload move and score.
Lookups == {[found |-> FALSE, move |-> NoMove, sim |-> 0]}
           \cup [found : {TRUE}, move : GMMoves, sim : Sims]

\* RetrievalEngine.lookup: the recorded move when the top score reaches the threshold.
Lookup(lk) == IF lk.found /\ lk.sim >= Threshold THEN lk.move ELSE NoMove

\* RetrievalEngine.get_move on a position whose legal move set is `legal`;
\* r is random.choice's pick (NoMove when the list is empty: IndexError).
GetMove(legal, lk, r) ==
    LET m == Lookup(lk) IN
    IF m /= NoMove /\ m \in legal
    THEN [hit |-> 1, miss |-> 0, ret |-> m]
    ELSE [hit |-> 0, miss |-> 1, ret |-> IF legal = {} THEN "raise" ELSE r]

(***************************************************************************)
(* State                                                                    *)
(***************************************************************************)
VARIABLES
    gmLegal, gmLookup, gmRet, gmHits, gmMisses, gmCalls,
    \* benchmark orchestration: which entry point, num_games, workers, orchestrator position
    mode, N, W, opc,
    \* per game task (index 1..N): pool state, play_game locals and result
    gst, gmoves, gpushed, ghits, gmisses, gbcalls, gresult, greason,
    \* as_completed's finished-future queue, games/results_list, _runs[run_id], saved report
    compq, rl, log, report,
    \* run_benchmark's loop accumulators
    accRes, accMoves, accHits, accMisses,
    \* stream_benchmark generator: cursor, emitted events, position
    rseen, emitted, rpc,
    \* encode_board: the board, the rules engine's answers about it, the returned vector
    encBoard, encExt, encVec,
    \* the vector returned by a second encode_board call on the same board
    encVec2

gmvars == <<gmLegal, gmLookup, gmRet, gmHits, gmMisses, gmCalls>>

encvars == <<encBoard, encExt, encVec, encVec2>>

\* RetrievalEngine.__init__: fresh counters.
GMInit ==
    /\ gmLegal = {}
    /\ gmLookup = [found |-> FALSE, move |-> NoMove, sim |-> 0]
    /\ gmRet = "init"
    /\ gmHits = 0
    /\ gmMisses = 0
    /\ gmCalls = 0

\* One call of get_move on an arbitrary position.
GMCall ==
    /\ gmCalls < MaxCalls
    /\ \E legal \in SUBSET LegalMovesUniverse, lk \in Lookups,
          r \in LegalMovesUniverse \cup {NoMove} :
         /\ (legal = {} <=> r = NoMove)
         /\ r = NoMove \/ r \in legal
         /\ LET out == GetMove(legal, lk, r) IN
              /\ gmLegal' = legal
              /\ gmLookup' = lk
              /\ gmRet' = out.ret
              /\ gmHits' = gmHits + out.hit
              /\ gmMisses' = gmMisses + out.miss
              /\ gmCalls' = gmCalls + 1

bvars == <<mode, N, W, opc, gst, gmoves, gpushed, ghits, gmisses, gbcalls,
           gresult, greason, compq, rl, log, report,
           accRes, accMoves, accHits, accMisses, rseen, emitted, rpc>>

vars == <<gmvars, bvars, encvars>>

\* Python None in results_list / games, and no saved report.
NoRec == [result |-> "None", reason |-> "None", moves |-> 0, hits |-> 0, misses |-> 0]
NoReport == [none |-> TRUE]
Outcomes == {"1-0", "0-1", "1/2-1/2", "*"}
\* _reason's outcomes for a game over: one decisive and one drawn representative
\* ("insufficient", "50-move" and "repetition" behave as "stalemate" here).
Terminals == {"checkmate", "stalemate"}
\* _reason's outcome when the loop stopped on a None move (board not over, but a
\* fifty-move or threefold-repetition draw may be claimable).
StopReasons == {"unknown", "50-move", "repetition"}
NonEmptyLegal == SUBSET LegalMovesUniverse \ {{}}

RECURSIVE SumOver(_, _)
\* sum(f[i] for i in S)
SumOver(f, S) ==
    IF S = {} THEN 0
    ELSE LET x == CHOOSE y \in S : TRUE IN f[x] + SumOver(f, S \ {x})

\* Python's round() of a non-negative quotient a/b (b > 0), ties to even.
RoundHalfEven(a, b) ==
    LET q == a \div b
        r == a % b
    IN IF 2 * r > b THEN q + 1
       ELSE IF 2 * r < b THEN q
       ELSE IF q % 2 = 0 THEN q ELSE q + 1

RECURSIVE PowMod2(_, _)
\* 2^e mod p
PowMod2(e, p) == IF e = 0 THEN 1 % p ELSE (2 * PowMod2(e - 1, p)) % p

RECURSIVE ExpShift(_, _, _)
\* the least j >= j0 with c * 2^j >= d
ExpShift(c, d, j) == IF c * 2^j >= d THEN j ELSE ExpShift(c, d, j + 1)

\* Python's rounding of the double x = fl(fl(h / t) * 100) to the unit 100 / D,
\* D = 2^a * 5^b, when h / t = c / D with c odd, i.e. when the exact value
\* 100 c / D sits on a half-unit tie (c / 2 units). q = fl(c / D) = m * 2^-(52 + j)
\* with 2^52 <= m < 2^53 and P = 5^b: r1 = P m - c 2^E (E = 52 + j - a) is P times
\* the first rounding error; c 2^E = P Q + R, so Q mod 256 = -R * P^-1 mod 256.
\* x rounds 100 m to 53 bits, dropping sh = 6 or 7 bits (7 iff 100 m >= 2^59), with
\* error e2 in units of 2^-(52 + j); x minus the tie has the sign of P e2 + 100 r1.
\* The exact double is then rounded half-to-even (round(x, 1), format(x, ".0f")).
FloatTie(c, a, b) ==
    LET D == 2^a * 5^b
        P == 5^b
        inv == CHOOSE y \in 0..255 : (P * y) % 256 = 1
        j == ExpShift(c, D, 0)
        R == (c * PowMod2(52 + j - a, P)) % P
        up1 == 2 * R > P
        r1 == IF up1 THEN P - R ELSE -R
        mlow == (((-R * inv) % 256) + (IF up1 THEN 1 ELSE 0)) % 256
        sh == IF 100 * c * 2^j > 128 * D \/ (100 * c * 2^j = 128 * D /\ r1 > 0) THEN 7 ELSE 6
        low == (100 * mlow) % (2^sh)
        half == 2^(sh - 1)
        e2 == IF low > half THEN 2^sh - low
              ELSE IF low < half THEN -low
              ELSE IF ((100 * mlow) \div (2^sh)) % 2 = 1 THEN half ELSE -half
        d == P * e2 + 100 * r1
    IN IF d > 0 THEN (c + 1) \div 2
       ELSE IF d < 0 THEN (c - 1) \div 2
       ELSE IF ((c - 1) \div 2) % 2 = 0 THEN (c - 1) \div 2 ELSE (c + 1) \div 2

\* h / t * 100 (t > 0) rounded by Python to the unit 100 / (2^a * 5^b). Away from an
\* exact half-unit tie the binary64 error (< 2^-50 relative) cannot cross the
\* half-unit, whose distance from the exact value is at least 1 / (2 t) units.
PctRound(h, t, a, b) ==
    LET n == 2^a * 5^b * h
    IN IF n % t = 0 /\ (n \div t) % 2 = 1
       THEN FloatTie(n \div t, a, b)
       ELSE RoundHalfEven(2^(a - 1) * 5^b * h, t)

\* Mutant: the percentage truncated to tenths instead of rounded.
HitRatePctMut(h, m) == IF h + m = 0 THEN 0 ELSE (1000 * h) \div (h + m)

\* round((h / total * 100) if total else 0, 1), in tenths of a percent.
HitRatePct(h, m) == IF h + m = 0 THEN 0 ELSE PctRound(h, h + m, 4, 3)

\* RetrievalEngine.stats(): f"Retrieval: {hits}/{total} hits ({rate:.0f}%)" with
\* rate = (hits / total * 100) if total else 0.
Stats(h, m) ==
    [hits |-> h, total |-> h + m,
     pct |-> IF h + m = 0 THEN 0 ELSE PctRound(h, h + m, 3, 2)]

\* board.result() once the game is over: the side to move after a checkmate lost.
ResultOf(t, pushed) ==
    IF t = "checkmate" THEN (IF pushed % 2 = 0 THEN "0-1" ELSE "1-0")
    ELSE "1/2-1/2"

\* play_game's returned dict.
GameRec(i) == [result |-> gresult[i], reason |-> greason[i], moves |-> gmoves[i],
               hits |-> ghits[i], misses |-> gmisses[i]]

\* play_game's move_times_sunfish: one sample per White iteration, including one whose
\* move came back None (move_times_retrieval has gbcalls samples).
SunfishCalls(i) == gmoves[i] - gbcalls[i]

\* _avg_ms(times) is 0 exactly for an empty list (each sampled call takes positive time).
AvgMsIsZero(calls) == calls = 0

\* Completion event appended by run_benchmark_endpoint.run.
GameEvent(idx, g) == [done |-> FALSE, game |-> idx, result |-> g.result,
                      reason |-> g.reason, moves |-> g.moves, filename |-> "", error |-> ""]
DoneEvent(fname) == [done |-> TRUE, game |-> 0, result |-> "", reason |-> "",
                     moves |-> 0, filename |-> fname, error |-> ""]
ErrorEvent(msg) == [done |-> TRUE, game |-> 0, result |-> "", reason |-> "",
                    moves |-> 0, filename |-> "", error |-> msg]

Games == 1..N
Running == {j \in Games : gst[j] = "running"}

\* results_list / games as a sequence of game dicts.
RlSeq == [i \in Games |-> rl[i]]

\* The summary built by run_benchmark_endpoint.run from results_list (n >= 1).
EndpointReport ==
    LET done == {i \in Games : rl[i] /= NoRec}
        hits == SumOver([i \in done |-> rl[i].hits], done)
        misses == SumOver([i \in done |-> rl[i].misses], done)
        cnt(o) == Cardinality({i \in done : rl[i].result = o})
    IN [num_games |-> N, workers |-> W, games |-> RlSeq,
        sunfish_wins |-> cnt("1-0"), retrieval_wins |-> cnt("0-1"), draws |-> cnt("1/2-1/2"),
        avg_moves |-> RoundHalfEven(SumOver([i \in done |-> rl[i].moves], done), N),
        total_hits |-> hits, total_misses |-> misses,
        hit_rate_pct |-> HitRatePct(hits, misses)]

\* Mutant: unfinished ("*") games counted as draws.
BatchReportMut ==
    [num_games |-> N, workers |-> W, games |-> RlSeq,
     sunfish_wins |-> accRes["1-0"], retrieval_wins |-> accRes["0-1"],
     draws |-> accRes["1/2-1/2"] + accRes["*"],
     avg_moves |-> RoundHalfEven(accMoves, N),
     total_hits |-> accHits, total_misses |-> accMisses,
     hit_rate_pct |-> HitRatePct(accHits, accMisses)]

\* The summary built by run_benchmark from its loop accumulators (num_games >= 1).
BatchReport ==
    [num_games |-> N, workers |-> W, games |-> RlSeq,
     sunfish_wins |-> accRes["1-0"], retrieval_wins |-> accRes["0-1"], draws |-> accRes["1/2-1/2"],
     avg_moves |-> RoundHalfEven(accMoves, N),
     total_hits |-> accHits, total_misses |-> accMisses,
     hit_rate_pct |-> HitRatePct(accHits, accMisses)]

BInit ==
    /\ mode \in {"batch", "endpoint"}
    /\ N \in 0..MaxGames
    \* run_benchmark(n) from __main__: workers = num_games
    /\ W \in (IF mode = "batch" THEN {N} ELSE 0..MaxWorkers)
    /\ opc = "init"
    /\ gst = [i \in Games |-> "queued"]
    /\ gmoves = [i \in Games |-> 0]
    /\ gpushed = [i \in Games |-> 0]
    /\ ghits = [i \in Games |-> 0]
    /\ gmisses = [i \in Games |-> 0]
    /\ gbcalls = [i \in Games |-> 0]
    /\ gresult = [i \in Games |-> "*"]
    /\ greason = [i \in Games |-> "unknown"]
    /\ compq = <<>>
    /\ rl = [i \in Games |-> NoRec]
    /\ log = <<>>
    /\ report = NoReport
    /\ accRes = [o \in Outcomes |-> 0]
    /\ accMoves = 0
    /\ accHits = 0
    /\ accMisses = 0
    /\ rseen = 0
    /\ emitted = <<>>
    /\ rpc = "polling"

gamevars == <<gst, gmoves, gpushed, ghits, gmisses, gbcalls, gresult, greason>>
accvars == <<accRes, accMoves, accHits, accMisses>>
readervars == <<rseen, emitted, rpc>>

\* ThreadPoolExecutor(max_workers=workers) and the submission of every game.
OStart ==
    /\ opc = "init"
    /\ IF W < 1
       THEN \* ValueError: max_workers must be greater than 0
            IF mode = "endpoint"
            THEN /\ log' = Append(log, ErrorEvent("max_workers must be greater than 0"))
                 /\ opc' = "done"
            ELSE /\ opc' = "crashed"
                 /\ UNCHANGED log
       ELSE /\ opc' = "submitted"
            /\ UNCHANGED log
    /\ UNCHANGED <<mode, N, W, gamevars, compq, rl, report, accvars, readervars, gmvars>>

\* A pool worker takes the oldest queued game: _run_single_game builds a fresh RetrievalEngine.
StartGame(i) ==
    /\ opc \in {"submitted", "loop", "draining"}
    /\ gst[i] = "queued"
    /\ \A j \in Games : j < i => gst[j] /= "queued"
    /\ Cardinality(Running) < W
    /\ gst' = [gst EXCEPT ![i] = "running"]
    /\ ghits' = [ghits EXCEPT ![i] = 0]
    /\ gmisses' = [gmisses EXCEPT ![i] = 0]
    /\ UNCHANGED <<mode, N, W, opc, gmoves, gpushed, gbcalls, gresult, greason,
                   compq, rl, log, report, accvars, readervars, gmvars>>

\* An unexpected exception inside the game task (engine construction, index query, oracle).
GameFail(i) ==
    /\ gst[i] = "running"
    /\ gst' = [gst EXCEPT ![i] = "failed"]
    /\ compq' = Append(compq, i)
    /\ UNCHANGED <<mode, N, W, opc, gmoves, gpushed, ghits, gmisses, gbcalls, gresult, greason,
                   rl, log, report, accvars, readervars, gmvars>>

\* After board.push: the loop test board.is_game_over(); a game over ends play_game.
AfterPush(i, t) ==
    IF t = "none"
    THEN /\ UNCHANGED <<gst, gresult, greason, compq>>
    ELSE /\ gst' = [gst EXCEPT ![i] = "done"]
         /\ gresult' = [gresult EXCEPT ![i] = ResultOf(t, gpushed[i] + 1)]
         /\ greason' = [greason EXCEPT ![i] = t]
         /\ compq' = Append(compq, i)

\* sunfish.get_move(board, depth=4): a move, or None when the oracle yields no move.
SunfishResults == {"move", NoMove}

TerminalChoice(i) == IF gpushed[i] + 1 = MaxPly THEN Terminals ELSE Terminals \cup {"none"}

\* One loop iteration of play_game with White (Sunfish) to move.
WhitePly(i) ==
    /\ gst[i] = "running"
    /\ gpushed[i] % 2 = 0
    /\ gmoves' = [gmoves EXCEPT ![i] = gmoves[i] + 1]
    /\ \E mv \in SunfishResults :
         IF mv = NoMove
         THEN \* move is None: break; board.result() is "*" and _reason reads the board
              /\ gst' = [gst EXCEPT ![i] = "done"]
              /\ gresult' = [gresult EXCEPT ![i] = "*"]
              /\ \E rs \in StopReasons :
                   greason' = [greason EXCEPT ![i] = rs]
              /\ compq' = Append(compq, i)
              /\ UNCHANGED gpushed
         ELSE /\ gpushed' = [gpushed EXCEPT ![i] = gpushed[i] + 1]
              /\ \E t \in TerminalChoice(i) : AfterPush(i, t)
    /\ UNCHANGED <<mode, N, W, opc, ghits, gmisses, gbcalls, rl, log, report,
                   accvars, readervars, gmvars>>

\* Mutant: one RetrievalEngine shared by every running game.
BlackPlyMut(i) ==
    /\ gst[i] = "running"
    /\ gpushed[i] % 2 = 1
    /\ gmoves' = [gmoves EXCEPT ![i] = gmoves[i] + 1]
    /\ \E legal \in NonEmptyLegal, lk \in Lookups, r \in LegalMovesUniverse :
         /\ r \in legal
         /\ LET out == GetMove(legal, lk, r) IN
              /\ ghits' = [j \in Games |-> IF gst[j] = "running" THEN ghits[j] + out.hit ELSE ghits[j]]
              /\ gmisses' = [j \in Games |-> IF gst[j] = "running" THEN gmisses[j] + out.miss ELSE gmisses[j]]
    /\ gbcalls' = [gbcalls EXCEPT ![i] = gbcalls[i] + 1]
    /\ gpushed' = [gpushed EXCEPT ![i] = gpushed[i] + 1]
    /\ \E t \in TerminalChoice(i) : AfterPush(i, t)
    /\ UNCHANGED <<mode, N, W, opc, rl, log, report, accvars, readervars, gmvars>>

\* One loop iteration of play_game with Black (the game's RetrievalEngine) to move.
BlackPly(i) ==
    /\ gst[i] = "running"
    /\ gpushed[i] % 2 = 1
    /\ gmoves' = [gmoves EXCEPT ![i] = gmoves[i] + 1]
    /\ \E legal \in NonEmptyLegal, lk \in Lookups, r \in LegalMovesUniverse :
         /\ r \in legal
         /\ LET out == GetMove(legal, lk, r) IN
              /\ ghits' = [ghits EXCEPT ![i] = ghits[i] + out.hit]
              /\ gmisses' = [gmisses EXCEPT ![i] = gmisses[i] + out.miss]
    /\ gbcalls' = [gbcalls EXCEPT ![i] = gbcalls[i] + 1]
    /\ gpushed' = [gpushed EXCEPT ![i] = gpushed[i] + 1]
    /\ \E t \in TerminalChoice(i) : AfterPush(i, t)
    /\ UNCHANGED <<mode, N, W, opc, rl, log, report, accvars, readervars, gmvars>>

\* Mutant: results stored at their completion position instead of their index.
OProcessMut ==
    /\ opc = "loop"
    /\ compq /= <<>>
    /\ LET idx == Head(compq)
           pos == Cardinality({j \in Games : rl[j] /= NoRec}) + 1
       IN
         /\ compq' = Tail(compq)
         /\ IF gst[idx] = "failed"
            THEN /\ opc' = "draining"
                 /\ UNCHANGED <<rl, log, accvars>>
            ELSE /\ rl' = [rl EXCEPT ![pos] = GameRec(idx)]
                 /\ IF mode = "endpoint"
                    THEN /\ log' = Append(log, GameEvent(idx, GameRec(idx)))
                         /\ UNCHANGED accvars
                    ELSE /\ accRes' = [accRes EXCEPT ![gresult[idx]] = @ + 1]
                         /\ accMoves' = accMoves + gmoves[idx]
                         /\ accHits' = accHits + ghits[idx]
                         /\ accMisses' = accMisses + gmisses[idx]
                         /\ UNCHANGED log
                 /\ UNCHANGED opc
    /\ UNCHANGED <<mode, N, W, gamevars, report, readervars, gmvars>>

\* The orderings of a sequence of distinct elements.
Orderings(s) ==
    {p \in [1..Len(s) -> {s[k] : k \in 1..Len(s)}] :
        {p[k] : k \in 1..Len(s)} = {s[k] : k \in 1..Len(s)}}

\* as_completed's first snapshot: the futures already finished are yielded in set
\* order (any order); futures finishing later are yielded in completion order.
OSnapshot ==
    /\ opc = "submitted"
    /\ opc' = "loop"
    /\ compq' \in Orderings(compq)
    /\ UNCHANGED <<mode, N, W, gamevars, rl, log, report, accvars, readervars, gmvars>>

\* as_completed yields the next finished future; future.result() and the loop body.
OProcess ==
    /\ opc = "loop"
    /\ compq /= <<>>
    /\ LET idx == Head(compq) IN
         /\ compq' = Tail(compq)
         /\ IF gst[idx] = "failed"
            THEN \* future.result() re-raises; the with block waits for the pool
                 /\ opc' = "draining"
                 /\ UNCHANGED <<rl, log, accvars>>
            ELSE /\ rl' = [rl EXCEPT ![idx] = GameRec(idx)]
                 /\ IF mode = "endpoint"
                    THEN /\ log' = Append(log, GameEvent(idx, GameRec(idx)))
                         /\ UNCHANGED accvars
                    ELSE /\ accRes' = [accRes EXCEPT ![gresult[idx]] = @ + 1]
                         /\ accMoves' = accMoves + gmoves[idx]
                         /\ accHits' = accHits + ghits[idx]
                         /\ accMisses' = accMisses + gmisses[idx]
                         /\ UNCHANGED log
                 /\ UNCHANGED opc
    /\ UNCHANGED <<mode, N, W, gamevars, report, readervars, gmvars>>

\* Every future was yielded: aggregation and saving of the report.
OFinish ==
    /\ opc = "loop"
    /\ \A i \in Games : rl[i] /= NoRec
    /\ IF mode = "endpoint"
       THEN IF N = 0
            THEN \* round(sum(...) / n): ZeroDivisionError
                 /\ log' = Append(log, ErrorEvent("division by zero"))
                 /\ UNCHANGED report
            ELSE \E ok \in BOOLEAN :
                   IF ok
                   THEN /\ report' = EndpointReport
                        /\ log' = Append(log, DoneEvent("benchmark_ts.json"))
                   ELSE /\ log' = Append(log, ErrorEvent("write failed"))
                        /\ UNCHANGED report
       ELSE /\ UNCHANGED log
            /\ IF N = 0
               THEN UNCHANGED report  \* total_moves / num_games: ZeroDivisionError
               ELSE \E ok \in BOOLEAN :
                      IF ok THEN report' = BatchReport ELSE UNCHANGED report
    /\ opc' = IF mode = "endpoint" \/ report' /= NoReport THEN "done" ELSE "crashed"
    /\ UNCHANGED <<mode, N, W, gamevars, compq, rl, accvars, readervars, gmvars>>

\* The pool has run every task after a failure: the exception leaves the with block.
ODrained ==
    /\ opc = "draining"
    /\ \A i \in Games : gst[i] \in {"done", "failed"}
    /\ IF mode = "endpoint"
       THEN /\ log' = Append(log, ErrorEvent("game failure"))
            /\ opc' = "done"
       ELSE /\ opc' = "crashed"
            /\ UNCHANGED log
    /\ UNCHANGED <<mode, N, W, gamevars, compq, rl, report, accvars, readervars, gmvars>>

\* Mutant: the cursor is not advanced after emitting an event.
ReaderStepMut ==
    /\ mode = "endpoint"
    /\ rpc = "polling"
    /\ rseen < Len(log)
    /\ LET ev == log[rseen + 1] IN
         /\ emitted' = Append(emitted, ev)
         /\ IF ev.done
            THEN /\ rpc' = "stopped"
                 /\ UNCHANGED rseen
            ELSE UNCHANGED <<rseen, rpc>>
    /\ UNCHANGED <<mode, N, W, opc, gamevars, compq, rl, log, report, accvars, gmvars>>

\* One step of stream_benchmark's generator: emit the next event of _runs[run_id].
ReaderStep ==
    /\ mode = "endpoint"
    /\ rpc = "polling"
    /\ rseen < Len(log)
    /\ LET ev == log[rseen + 1] IN
         /\ emitted' = Append(emitted, ev)
         /\ IF ev.done
            THEN /\ rpc' = "stopped"
                 /\ UNCHANGED rseen
            ELSE /\ rseen' = rseen + 1
                 /\ UNCHANGED rpc
    /\ UNCHANGED <<mode, N, W, opc, gamevars, compq, rl, log, report, accvars, gmvars>>

BNext ==
    \/ OStart
    \/ \E i \in Games : StartGame(i)
    \/ \E i \in Games : GameFail(i)
    \/ \E i \in Games : WhitePly(i)
    \/ \E i \in Games : BlackPly(i)
    \/ OSnapshot
    \/ OProcess
    \/ OFinish
    \/ ODrained
    \/ ReaderStep

GMFixed ==
    /\ gmLegal = {}
    /\ gmLookup = [found |-> FALSE, move |-> NoMove, sim |-> 0]
    /\ gmRet = "init"
    /\ gmHits = 0
    /\ gmMisses = 0
    /\ gmCalls = 0

(***************************************************************************)
(* embeddings.py: encode_board. Vector entries are rationals <<num, den>>.  *)
(***************************************************************************)
VECTOR_DIM == 832

\* chess.PAWN .. chess.KING; chess.WHITE = TRUE, chess.BLACK = FALSE.
PAWN == 1
BISHOP == 3
KING == 6
PieceTypes == 1..6

NoVec == <<>>
Zero == <<0, 1>>
One == <<1, 1>>
FloatOf(b) == IF b THEN One ELSE Zero
Max(a, b) == IF a >= b THEN a ELSE b
ColorIdx(c) == IF c THEN 0 ELSE 1

\* Squares that may hold a non-king piece, the piece kinds placed there, and the kings.
EncSquares == {20, 27, 36, 43}
PieceKinds == [pt : {PAWN, BISHOP, 5}, color : BOOLEAN]
Kings == {[sq |-> 4, pt |-> KING, color |-> TRUE], [sq |-> 60, pt |-> KING, color |-> FALSE]}
Boards ==
    UNION { { Kings \cup {[sq |-> x, pt |-> a[x].pt, color |-> a[x].color] : x \in S}
              : a \in [S -> PieceKinds] }
            : S \in {T \in SUBSET EncSquares : Cardinality(T) <= MaxEncPieces} }

\* The rules engine's answers encode_board reads: attackers of e4,d4,e5,d5 (white,
\* black), castling rights (K, Q, k, q), side to move, number of legal moves.
ExtInputs ==
    { [att |-> [i \in 0..3 |-> <<FALSE, FALSE>>], castle |-> <<FALSE, FALSE, FALSE, FALSE>>,
       turn |-> TRUE, nlegal |-> 0],
      [att |-> [i \in 0..3 |-> <<TRUE, i % 2 = 0>>], castle |-> <<TRUE, TRUE, TRUE, TRUE>>,
       turn |-> FALSE, nlegal |-> 20],
      [att |-> [i \in 0..3 |-> <<i < 2, TRUE>>], castle |-> <<TRUE, FALSE, FALSE, TRUE>>,
       turn |-> TRUE, nlegal |-> 65] }

\* chess.square(file, rank)
Square(f, r) == r * 8 + f
\* BB_SQUARES[square]: Python list indexing, a negative square wraps around.
BBIndex(sq) == IF sq < 0 THEN sq + 64 ELSE sq
\* board.piece_at(square), as (type, color) or <<0, FALSE>> for an empty square.
PieceAt(board, sq) ==
    IF \E p \in board : p.sq = BBIndex(sq)
    THEN LET p == CHOOSE q \in board : q.sq = BBIndex(sq) IN <<p.pt, p.color>>
    ELSE <<0, FALSE>>
\* board.pieces(pt, color)
Pieces(board, pt, color) == {p.sq : p \in {q \in board : q.pt = pt /\ q.color = color}}
\* piece_offset[(piece_type, color)]
PieceOffset(pt, color) == (pt - 1) * 64 + (IF color THEN 0 ELSE 384)

\* An encode_board call that raised (numpy IndexError).
VecError == [error |-> "IndexError"]

\* vec[k] = f[k] for every index k written by one block of encode_board, with numpy
\* item assignment on the length-n array: -n <= k < 0 writes slot k + n, any other
\* k outside 0..n-1 raises IndexError, which leaves encode_board.
Write(v, f) ==
    IF v = VecError THEN VecError
    ELSE LET n == Cardinality(DOMAIN v) IN
         IF \E k \in DOMAIN f : k < -n \/ k >= n THEN VecError
         ELSE [k \in DOMAIN v |-> IF k \in DOMAIN f THEN f[k]
                                 ELSE IF k - n \in DOMAIN f THEN f[k - n]
                                 ELSE v[k]]

\* (w - b) / max(w + b, 1)
Material(board, pt) ==
    LET w == Cardinality(Pieces(board, pt, TRUE))
        b == Cardinality(Pieces(board, pt, FALSE))
    IN <<w - b, Max(w + b, 1)>>

\* range(rank + 1, 8) for White, range(rank - 7, rank) for Black.
ScanRanks(color, rank) == IF color THEN (rank + 1)..7 ELSE (rank - 7)..(rank - 1)

\* The is_passed loop for one pawn.
IsPassed(board, color, sq) ==
    LET f == sq % 8
        r == sq \div 8
    IN \A af \in {f - 1, f, f + 1} :
         (0 <= af /\ af <= 7) =>
            \A rr \in ScanRanks(color, r) :
               PieceAt(board, Square(af, rr)) /= <<PAWN, ~color>>

PassedCount(board, color) ==
    Cardinality({sq \in Pieces(board, PAWN, color) : IsPassed(board, color, sq)})

\* King pawn shield count for a side whose king is on ksq.
Shield(board, color, ksq) ==
    LET kf == ksq % 8
        ranks == IF color THEN {1, 2} ELSE {5, 6}
    IN Cardinality({<<f, r>> \in ((kf - 1)..(kf + 1)) \X ranks :
                      0 <= f /\ f <= 7 /\ PieceAt(board, Square(f, r)) = <<PAWN, color>>})

\* encode_board(board)
Encode(board, ext) ==
    LET o == 768
        v0 == [k \in 0..(VECTOR_DIM - 1) |-> Zero]
        v1 == Write(v0, [k \in {PieceOffset(p.pt, p.color) + p.sq : p \in board} |-> One])
        v2 == Write(v1, [k \in o..(o + 5) |-> Material(board, k - o + 1)])
        v3 == Write(v2, [k \in {o + 6 + ColorIdx(c) * 8 + (x % 8) :
                                  <<c, x>> \in {<<c, x>> \in BOOLEAN \X (0..63) :
                                                   x \in Pieces(board, PAWN, c)}} |-> One])
        kingsq(c) == Pieces(board, KING, c)
        \* board.king(color): msb of the color's king mask
        kingat(c) == CHOOSE x \in kingsq(c) : \A y \in kingsq(c) : y <= x
        v4 == Write(v3, [k \in UNION {{o + 22 + ColorIdx(c) * 2, o + 23 + ColorIdx(c) * 2} :
                                        c \in {c2 \in BOOLEAN : kingsq(c2) /= {}}} |->
                          LET c == (k - o - 22) \div 2 = 0
                              ksq == kingat(c)
                          IN IF (k - o - 22) % 2 = 0 THEN <<ksq % 8, 7>> ELSE <<ksq \div 8, 7>>])
        v5 == Write(v4, [k \in (o + 26)..(o + 33) |->
                          LET i == (k - o - 26) \div 2 IN
                          IF (k - o - 26) % 2 = 0 THEN FloatOf(ext.att[i][1]) ELSE FloatOf(ext.att[i][2])])
        v6 == Write(v5, [k \in (o + 34)..(o + 37) |-> FloatOf(ext.castle[k - o - 33])])
        v7 == Write(v6, [k \in {o + 38} |-> FloatOf(ext.turn)])
        v8 == Write(v7, [k \in {o + 39} |-> <<ext.nlegal, 60>>])
        v9 == Write(v8, [k \in {o + 40} |-> <<Cardinality(board), 32>>])
        v10 == Write(v9, [k \in (o + 41)..(o + 48) |->
                           FloatOf(~\E r \in 0..7 : PieceAt(board, Square(k - o - 41, r))[1] = PAWN)])
        v11 == Write(v10, [k \in (o + 49)..(o + 50) |-> <<PassedCount(board, k = o + 49), 8>>])
        v12 == Write(v11, [k \in (o + 51)..(o + 52) |->
                            FloatOf(Cardinality(Pieces(board, BISHOP, k = o + 51)) >= 2)])
        v13 == Write(v12, [k \in {o + 53 + ColorIdx(c) : c \in {c2 \in BOOLEAN : kingsq(c2) /= {}}} |->
                            LET c == k = o + 53 IN
                            <<Shield(board, c, kingat(c)), 6>>])
    IN v13

EncInit ==
    /\ encBoard \in Boards
    /\ encExt \in ExtInputs
    /\ encVec = NoVec
    /\ encVec2 = NoVec

\* Mutant: the encoder lifts the pawns off the board it reads and leaves them off.
EncodeStepMut ==
    /\ encVec = NoVec
    /\ encVec' = Encode(encBoard, encExt)
    /\ encBoard' = {p \in encBoard : p.pt /= PAWN}
    /\ UNCHANGED <<encExt, encVec2>>

\* One call of encode_board on the drawn position: it only reads the board
\* (pieces, piece_at, king, attackers, castling rights, turn, legal_moves) and
\* fills a fresh np.zeros(VECTOR_DIM).
EncodeStep ==
    /\ encVec = NoVec
    /\ encVec' = Encode(encBoard, encExt)
    /\ UNCHANGED <<encBoard, encExt, encVec2>>

\* A second encode_board call on the same board object.
EncodeAgain ==
    /\ encVec /= NoVec
    /\ encVec2 = NoVec
    /\ encVec2' = Encode(encBoard, encExt)
    /\ UNCHANGED <<encBoard, encExt, encVec>>

EncFixed ==
    /\ encBoard = {}
    /\ encExt = CHOOSE e \in ExtInputs : e.nlegal = 0
    /\ encVec = NoVec
    /\ encVec2 = NoVec

Init == BInit /\ GMFixed /\ EncFixed

Next == BNext /\ UNCHANGED encvars

Spec == Init /\ [][Next]_vars

\* The benchmark state of SpecGM: a single fixed, unstarted endpoint run.
BFixed ==
    /\ mode = "endpoint" /\ N = 0 /\ W = 0 /\ opc = "init"
    /\ gst = <<>> /\ gmoves = <<>> /\ gpushed = <<>> /\ ghits = <<>> /\ gmisses = <<>>
    /\ gbcalls = <<>> /\ gresult = <<>> /\ greason = <<>>
    /\ compq = <<>> /\ rl = <<>> /\ log = <<>> /\ report = NoReport
    /\ accRes = [o \in Outcomes |-> 0] /\ accMoves = 0 /\ accHits = 0 /\ accMisses = 0
    /\ rseen = 0 /\ emitted = <<>> /\ rpc = "polling"

InitGM == GMInit /\ BFixed /\ EncFixed

NextGM == GMCall /\ UNCHANGED <<bvars, encvars>>

SpecGM == InitGM /\ [][NextGM]_vars

\* Report arithmetic on longer games: every game of the run has finished (each
\* Black call counted as a hit or a miss, the last White move mating), the
\* as_completed loop has its completion order and has not processed any future yet.
InitRate ==
    /\ mode \in {"batch", "endpoint"}
    /\ N \in 1..MaxGames
    /\ W = N
    /\ opc = "loop"
    /\ gst = [i \in Games |-> "done"]
    /\ ghits \in [Games -> 0..MaxHM]
    /\ gmisses \in [Games -> 0..MaxHM]
    /\ gbcalls = [i \in Games |-> ghits[i] + gmisses[i]]
    /\ gpushed = [i \in Games |-> 2 * gbcalls[i] + 1]
    /\ gmoves = gpushed
    /\ gresult = [i \in Games |-> ResultOf("checkmate", gpushed[i])]
    /\ greason = [i \in Games |-> "checkmate"]
    /\ compq \in Orderings([i \in Games |-> i])
    /\ rl = [i \in Games |-> NoRec]
    /\ log = <<>>
    /\ report = NoReport
    /\ accRes = [o \in Outcomes |-> 0]
    /\ accMoves = 0
    /\ accHits = 0
    /\ accMisses = 0
    /\ rseen = 0
    /\ emitted = <<>>
    /\ rpc = "polling"
    /\ GMFixed
    /\ EncFixed

NextRate == (OProcess \/ OFinish) /\ UNCHANGED encvars

SpecRate == InitRate /\ [][NextRate]_vars

InitEnc == EncInit /\ GMFixed /\ BFixed

NextEnc == (EncodeStep \/ EncodeAgain) /\ UNCHANGED <<gmvars, bvars>>

SpecEnc == InitEnc /\ [][NextEnc]_vars

(***************************************************************************)
(* Properties                                                               *)
(***************************************************************************)
IsPrefix(s, t) == Len(s) <= Len(t) /\ s = SubSeq(t, 1, Len(s))

\* C1: whenever a report is produced (batch command or run endpoint), its games
\* array has exactly N entries and entry i is the result of game i, whatever
\* the completion order.
C1_ReportOrdered ==
    report /= NoReport =>
        /\ Len(report.games) = N
        /\ \A i \in Games : report.games[i] /= NoRec /\ report.games[i] = GameRec(i)

C1_Witness ==
    /\ report /= NoReport
    /\ mode = "endpoint"
    /\ N = 2
    /\ log[1].game = 2

\* C2: the event log is only appended to; it holds one completion event per
\* finished game in completion order, then exactly one terminal event, and
\* nothing after it.
C2_LogInv ==
    LET L == Len(log)
        term == L > 0 /\ log[L].done
        body == IF term THEN L - 1 ELSE L
    IN /\ \A k \in 1..body : ~log[k].done /\ log[k].game \in Games
       /\ \A k, l \in 1..body : k /= l => log[k].game /= log[l].game
       /\ \A k \in 1..body : gst[log[k].game] = "done"
       /\ term => \A j \in Games : gst[j] = "done" =>
                    \E k \in 1..body : log[k].game = j

C2_LogShape ==
    /\ []C2_LogInv
    /\ [][IsPrefix(log, log')]_vars

\* C3: the stream emits an ordered prefix of the log, each event once, and
\* stops right after emitting the terminal event.
C3_StreamPrefix ==
    /\ IsPrefix(emitted, log)
    /\ \A k \in 1..(Len(emitted) - 1) : ~emitted[k].done
    /\ (rpc = "stopped") <=> (Len(emitted) > 0 /\ emitted[Len(emitted)].done)

C3_Witness ==
    /\ rpc = "stopped"
    /\ Len(emitted) >= 3

\* C4: a failing game task is recorded as an error entry and every sibling
\* game that finishes still gets its completion event.
C4_Isolation ==
    ((\E i \in Games : gst[i] = "failed") /\ Len(log) > 0 /\ log[Len(log)].done) =>
        /\ \E k \in 1..Len(log) : log[k].error /= ""
        /\ \A j \in Games : gst[j] = "done" =>
             \E k \in 1..Len(log) : ~log[k].done /\ log[k].game = j

\* C5: get_move returns a legal move when one exists, and None when none exists.
C5_Legal ==
    gmCalls > 0 =>
        /\ gmLegal /= {} => gmRet \in gmLegal
        /\ gmLegal = {} => gmRet = NoMove

C7_HitRate ==
    /\ report /= NoReport =>
         LET h == SumOver([i \in Games |-> report.games[i].hits], Games)
             m == SumOver([i \in Games |-> report.games[i].misses], Games)
             t == h + m
             r == report.hit_rate_pct
         IN /\ report.total_hits = h
            /\ report.total_misses = m
            /\ t = 0 => r = 0
            /\ t > 0 =>
                 IF (2000 * h) % t = 0 /\ ((2000 * h) \div t) % 2 = 1
                 THEN r = FloatTie((2000 * h) \div t, 4, 3)
                 ELSE /\ 2 * (r * t - 1000 * h) < t
                      /\ 2 * (1000 * h - r * t) < t
    /\ \A i \in Games :
         LET s == Stats(ghits[i], gmisses[i])
             h == ghits[i]
             t == ghits[i] + gmisses[i]
         IN /\ s.hits = h
            /\ s.total = t
            /\ t = 0 => s.pct = 0
            /\ t > 0 =>
                 IF (200 * h) % t = 0 /\ ((200 * h) \div t) % 2 = 1
                 THEN s.pct = FloatTie((200 * h) \div t, 3, 2)
                 ELSE /\ 2 * (s.pct * t - 100 * h) < t
                      /\ 2 * (100 * h - s.pct * t) < t

C7_Witness ==
    /\ report /= NoReport
    /\ N = 2
    /\ report.total_hits > 0
    /\ report.total_misses > 0
    /\ report.hit_rate_pct * (report.total_hits + report.total_misses) /= 1000 * report.total_hits

\* C8: with num_games = 0 the run still produces a report whose averages and
\* hit rate are 0.
C8_ZeroGames ==
    (N = 0 /\ opc \in {"done", "crashed"}) =>
        /\ report /= NoReport
        /\ report.avg_moves = 0
        /\ report.hit_rate_pct = 0

\* C9: every game's hits + misses equals the number of retrieval moves it
\* requested, however the games interleave.
C9_Isolation ==
    \A i \in Games : ghits[i] + gmisses[i] = gbcalls[i]

C9_Witness ==
    /\ N = 2
    /\ W = 2
    /\ \A i \in Games : gst[i] = "done" /\ gbcalls[i] > 0
    /\ ghits[1] /= ghits[2]

\* C10: avg_moves = round(sum of ply counts / N) and each game's ply count is
\* the number of moves pushed to its board.
C10_AvgMoves ==
    /\ report /= NoReport =>
         report.avg_moves = RoundHalfEven(SumOver([i \in Games |-> report.games[i].moves], Games), N)
    /\ \A i \in Games : gst[i] = "done" => gmoves[i] = gpushed[i]


\* C11: White asks on even plies and Black on odd plies; a checkmate is recorded
\* with reason "checkmate" and the checkmate result; a side that never moved has
\* an average latency of 0.
C11_GameLoop ==
    \A i \in Games : gst[i] = "done" =>
        /\ gbcalls[i] = gmoves[i] \div 2
        /\ greason[i] = "checkmate" =>
             gresult[i] = (IF gpushed[i] % 2 = 0 THEN "0-1" ELSE "1-0")
        /\ (gpushed[i] + 1) \div 2 = 0 => AvgMsIsZero(SunfishCalls(i))
        /\ gpushed[i] \div 2 = 0 => AvgMsIsZero(gbcalls[i])

\* C14: the three outcome buckets add up to num_games exactly when no game ended
\* with "*"; each "*" game is counted in no bucket.
C14_Outcomes ==
    report /= NoReport =>
        LET star == Cardinality({i \in Games : report.games[i].result = "*"})
            decided == report.sunfish_wins + report.retrieval_wins + report.draws
        IN /\ decided + star = report.num_games
           /\ (decided = report.num_games) <=> (star = 0)

C14_Witness ==
    /\ report /= NoReport
    /\ \E i \in Games : report.games[i].result = "*"
    /\ \E i \in Games : report.games[i].result /= "*"

\* Entry k of the vector is a number in [lo, hi], or exactly lo or hi.
InRange(e, lo, hi) == e[1] >= lo * e[2] /\ e[1] <= hi * e[2]
IsFlag(e) == e[1] = 0 \/ e[1] = e[2]

C13_Passed ==
    encVec /= NoVec =>
        \A c \in BOOLEAN :
            LET own == {p \in encBoard : p.pt = PAWN /\ p.color = c}
                passed == {p \in own :
                             ~\E q \in encBoard :
                                /\ q.pt = PAWN /\ q.color = ~c
                                /\ (q.sq % 8) - (p.sq % 8) \in {-1, 0, 1}
                                /\ IF c THEN (q.sq \div 8) > (p.sq \div 8) ELSE (q.sq \div 8) < (p.sq \div 8)}
            IN encVec[IF c THEN 817 ELSE 818] = <<Cardinality(passed), 8>>

====
